---- MODULE Spec2Model ----
(***************************************************************************)
(* Model of the aapt2 "compile" phase (tools/aapt2/compile/Compile.cpp):   *)
(* path classification, input enumeration, the per-input dispatch of the   *)
(* driver and the archive-entry protocol of the four compile steps.        *)
(*                                                                         *)
(* Strings are sequences of one-character strings, so that find, substr    *)
(* and concatenation are computed as the code computes them.               *)
(***************************************************************************)
EXTENDS Integers, Sequences, FiniteSets, TLC

(***************************************************************************)
(* Bounds of the model.                                                    *)
(***************************************************************************)
\* number of leading directory components put in front of "dir/file"
MaxPrefix == 1
\* number of positional input files of one invocation
MaxArgs == 2
\* number of entries readdir() yields for the resource root
MaxDirs == 2
\* number of inline sub-documents the extractor produces for one XML input
MaxInline == 2
\* largest byte count of a re-encoded or chunk-filtered PNG
MaxPngBytes == 2
\* largest number of colour stops of a gradient asked of the gradient cache
MaxCount == 4

(***************************************************************************)
(* String helpers.                                                         *)
(***************************************************************************)
sDirSep == "/"

\* std::string::find(char): position (1-based) of the first c, 0 for npos
RECURSIVE FindFrom(_, _, _)
FindFrom(s, c, i) ==
  IF i > Len(s) THEN 0
  ELSE IF s[i] = c THEN i
  ELSE FindFrom(s, c, i + 1)

Find(s, c) == FindFrom(s, c, 1)

\* std::string::find(str) != npos
Contains(s, needle) ==
  \E i \in 1..(Len(s) - Len(needle) + 1) :
    SubSeq(s, i, i + Len(needle) - 1) = needle

\* util::stringStartsWith
stringStartsWith(s, prefix) ==
  /\ Len(s) >= Len(prefix)
  /\ SubSeq(s, 1, Len(prefix)) = prefix

\* util::split: cut at every separator, empty parts are kept
RECURSIVE split(_, _)
split(s, sep) ==
  LET pos == Find(s, sep) IN
    IF pos = 0 THEN <<s>>
    ELSE <<SubSeq(s, 1, pos - 1)>> \o split(SubSeq(s, pos + 1, Len(s)), sep)

\* file::appendPath
appendPath(base, part) == base \o <<sDirSep>> \o part

(***************************************************************************)
(* The words the inputs are built from.                                    *)
(***************************************************************************)
W_res == <<"r", "e", "s">>
W_values == <<"v", "a", "l", "u", "e", "s">>
W_layout == <<"l", "a", "y", "o", "u", "t">>
W_drawable == <<"d", "r", "a", "w", "a", "b", "l", "e">>
W_raw == <<"r", "a", "w">>
W_bogus == <<"b", "o", "g", "u", "s">>
W_xml == <<"x", "m", "l">>
W_png == <<"p", "n", "g">>
W_9png == <<"9", ".", "p", "n", "g">>
W_arsc == <<"a", "r", "s", "c">>
W_txt == <<"t", "x", "t">>
W_flat == <<"f", "l", "a", "t">>
W_zip == <<"z", "i", "p">>
W_fr == <<"f", "r">>
W_hdpi == <<"h", "d", "p", "i">>
W_v21 == <<"v", "2", "1">>
W_zz == <<"z", "z">>
W_donottranslate ==
  <<"d", "o", "n", "o", "t", "t", "r", "a", "n", "s", "l", "a", "t", "e">>
W_empty == <<>>

(***************************************************************************)
(* Collaborators whose code is outside Compile.cpp.                        *)
(***************************************************************************)
\* ConfigDescription::parse: the qualifier strings that parse.  The empty
\* string and dash-joined lists of known qualifiers parse, "zz" does not.
ValidConfigs ==
  { W_empty, W_fr, W_hdpi, W_v21, W_fr \o <<"-">> \o W_hdpi }

ConfigDescription_parse(configStr) == configStr \in ValidConfigs

\* parseResourceType: the directory names that name a resource type
KnownTypes == { W_layout, W_drawable, W_raw, W_xml }

\* the result is a pointer: <<type>> when known, <<>> for nullptr
parseResourceType(dir) == IF dir \in KnownTypes THEN <<dir>> ELSE <<>>

kRaw == W_raw

(***************************************************************************)
(* extractResourcePathData                                                 *)
(***************************************************************************)
NoData == [ok |-> FALSE, error |-> "none"]

extractResourcePathData_lastDot(path) ==
  LET parts == split(path, sDirSep) IN
  IF Len(parts) < 2 THEN [ok |-> FALSE, error |-> "bad resource path"]
  ELSE
    LET dir == parts[Len(parts) - 1]
        dashPos == Find(dir, "-")
        configStr == IF dashPos # 0 THEN SubSeq(dir, dashPos + 1, Len(dir))
                     ELSE W_empty
        dirStr == IF dashPos # 0 THEN SubSeq(dir, 1, dashPos - 1) ELSE dir
        filename == parts[Len(parts)]
        dots == { i \in 1..Len(filename) : filename[i] = "." }
        dotPos == IF dots = {} THEN 0
                  ELSE CHOOSE i \in dots : \A j \in dots : j <= i
        extension == IF dotPos # 0
                     THEN SubSeq(filename, dotPos + 1, Len(filename))
                     ELSE W_empty
        name == IF dotPos # 0 THEN SubSeq(filename, 1, dotPos - 1)
                ELSE filename
    IN
    IF dashPos # 0 /\ ~ConfigDescription_parse(configStr)
    THEN [ok |-> FALSE, error |-> "invalid configuration"]
    ELSE [ok |-> TRUE, source |-> path, resourceDir |-> dirStr,
          name |-> name, extension |-> extension, configStr |-> configStr]

extractResourcePathData(path) ==
  LET parts == split(path, sDirSep) IN
  IF Len(parts) < 2 THEN [ok |-> FALSE, error |-> "bad resource path"]
  ELSE
    LET dir == parts[Len(parts) - 1]
        dashPos == Find(dir, "-")
        configStr == IF dashPos # 0 THEN SubSeq(dir, dashPos + 1, Len(dir))
                     ELSE W_empty
        dirStr == IF dashPos # 0 THEN SubSeq(dir, 1, dashPos - 1) ELSE dir
        filename == parts[Len(parts)]
        dotPos == Find(filename, ".")
        extension == IF dotPos # 0
                     THEN SubSeq(filename, dotPos + 1, Len(filename))
                     ELSE W_empty
        name == IF dotPos # 0 THEN SubSeq(filename, 1, dotPos - 1)
                ELSE filename
    IN
    IF dashPos # 0 /\ ~ConfigDescription_parse(configStr)
    THEN [ok |-> FALSE, error |-> "invalid configuration"]
    ELSE [ok |-> TRUE, source |-> path, resourceDir |-> dirStr,
          name |-> name, extension |-> extension, configStr |-> configStr]

(***************************************************************************)
(* buildIntermediateFilename                                               *)
(***************************************************************************)
buildIntermediateFilename_alwaysDash(data) ==
  data.resourceDir
    \o (<<"-">> \o data.configStr)
    \o <<"_">> \o data.name
    \o (IF data.extension # W_empty THEN <<".">> \o data.extension ELSE W_empty)
    \o <<".">> \o W_flat

buildIntermediateFilename(data) ==
  data.resourceDir
    \o (IF data.configStr # W_empty THEN <<"-">> \o data.configStr ELSE W_empty)
    \o <<"_">> \o data.name
    \o (IF data.extension # W_empty THEN <<".">> \o data.extension ELSE W_empty)
    \o <<".">> \o W_flat

\* isHidden
isHidden_never(filename) == FALSE

isHidden(filename) == stringStartsWith(filename, <<".">>)

(***************************************************************************)
(* The dispatch of compile(): which compile step one classified input gets,*)
(* the descriptor it is called with and the entry name.                    *)
(***************************************************************************)
compile_dispatch_extensionFirst(pathData) ==
  IF pathData.resourceDir = W_values
  THEN LET rewritten == [pathData EXCEPT !.extension = W_arsc] IN
       [step |-> "compileTable", data |-> rewritten, failed |-> FALSE,
        outputFilename |-> buildIntermediateFilename(rewritten)]
  ELSE
    LET outputFilename == buildIntermediateFilename(pathData)
        type == parseResourceType(pathData.resourceDir)
        pick(s) == [step |-> s, data |-> pathData, failed |-> FALSE,
                    outputFilename |-> outputFilename]
    IN
    IF type # <<>>
    THEN IF pathData.extension = W_xml THEN pick("compileXml")
         ELSE IF pathData.extension = W_png \/ pathData.extension = W_9png
              THEN pick("compilePng")
              ELSE pick("compileFile")
    ELSE [step |-> "none", data |-> pathData, failed |-> TRUE,
          outputFilename |-> outputFilename]

compile_dispatch(pathData) ==
  IF pathData.resourceDir = W_values
  THEN LET rewritten == [pathData EXCEPT !.extension = W_arsc] IN
       [step |-> "compileTable", data |-> rewritten, failed |-> FALSE,
        outputFilename |-> buildIntermediateFilename(rewritten)]
  ELSE
    LET outputFilename == buildIntermediateFilename(pathData)
        type == parseResourceType(pathData.resourceDir)
        pick(s) == [step |-> s, data |-> pathData, failed |-> FALSE,
                    outputFilename |-> outputFilename]
    IN
    IF type # <<>>
    THEN IF type[1] # kRaw
         THEN IF pathData.extension = W_xml THEN pick("compileXml")
              ELSE IF pathData.extension = W_png \/ pathData.extension = W_9png
                   THEN pick("compilePng")
                   ELSE pick("compileFile")
         ELSE pick("compileFile")
    ELSE [step |-> "none", data |-> pathData, failed |-> TRUE,
          outputFilename |-> outputFilename]

\* compileTable: the default translatable flag of the parser options
compileTable_translatable(pathData) ==
  ~Contains(pathData.name, W_donottranslate)

NoDispatch ==
  [step |-> "none", data |-> NoData, failed |-> FALSE, outputFilename |-> W_empty]

(***************************************************************************)
(* State.                                                                  *)
(***************************************************************************)
VARIABLES
  p_pc,            \* classification run: position
  p_path,          \* classification run: the path given
  p_data,          \* classification run: result of extractResourcePathData
  p_name,          \* classification run: buildIntermediateFilename(p_data)
  p_sel,           \* classification run: what the driver dispatches
  p_translatable,  \* classification run: parserOptions.translatable
  pc,              \* compile(): position
  resDir,          \* options.resDir, a Maybe: <<>> or <<root>>
  outputPath,      \* options.outputPath
  flagArgs,        \* flags.getArgs(), the positional input files
  tree,            \* the resource root: whether opendir() succeeds and
                   \* what readdir() yields
  archiveWriter,   \* which writer archiveWriter holds, "null" when none
  inputData,       \* the classified inputs
  idx,             \* position of the for loop in inputData
  error,           \* the sticky error flag of compile()
  ret,             \* return value of compile(), -1 while it runs
  sel,             \* the compile step running and its arguments
  inlineDocuments, \* the extractor's sub-documents of the XML being compiled
  flattened,       \* how many documents of the XML were flattened
  adaptor,         \* a CopyingOutputStreamAdaptor is alive
  hadError,        \* the error flag of the output stream
  stream,          \* what was written into the entry being compiled
  png,             \* compilePng: the byte counts and the payload chosen
  table,           \* compileTable: table.packages
  diags,           \* the errors Compile.cpp reported for the latest input
  entries,         \* the startEntry calls the writer received, in order
  dispatched,      \* the inputs the loop has taken, in order
  g_pc,            \* GradientCache: position inside get()
  g_ext,           \* GradientCache: mUseFloatTexture, mHasNpot,
                   \* mMaxTextureSize and the bytes per texel of an upload
  mMaxSize,        \* GradientCache::mMaxSize
  mSize,           \* GradientCache::mSize
  mCache,          \* GradientCache::mCache, the oldest entry first
  g_gradient,      \* get(): the gradient asked for
  g_size,          \* addLinearGradient(): the local size
  g_evicted,       \* addLinearGradient(): removeOldest calls of this get()
  g_texture,       \* get(): what the latest call returned
  g_allFit         \* every texture asked for so far was at most mMaxSize

pvars == <<p_pc, p_path, p_data, p_name, p_sel, p_translatable>>

stepvars == <<sel, inlineDocuments, flattened, adaptor, hadError, stream, png,
              table>>

invars == <<resDir, outputPath, flagArgs, tree>>

mvars == <<pc, invars, archiveWriter, inputData, idx, error, ret, stepvars,
           diags, entries, dispatched>>

gvars == <<g_pc, g_ext, mMaxSize, mSize, mCache, g_gradient, g_size,
           g_evicted, g_texture, g_allFit>>

vars == <<pvars, mvars, gvars>>

NoTree == [opens |-> FALSE, entries |-> <<>>]

\* the table of compileTable: table.packages, and what it was when the
\* parser was done
NoTable == [parsed |-> <<>>, packages |-> <<>>]

NoPng == [ninePatch |-> FALSE, crunched |-> 0, filtered |-> 0,
          payload |-> [from |-> "none", bytes |-> 0]]

\* the state of the compile() variables while only a classification runs
MIdle ==
  /\ pc = "idle"
  /\ resDir = <<>>
  /\ outputPath = W_empty
  /\ flagArgs = <<>>
  /\ tree = NoTree
  /\ archiveWriter = "null"
  /\ inputData = <<>>
  /\ idx = 1
  /\ error = FALSE
  /\ ret = -1
  /\ sel = NoDispatch
  /\ inlineDocuments = <<>>
  /\ flattened = 0
  /\ adaptor = FALSE
  /\ hadError = FALSE
  /\ stream = <<>>
  /\ png = NoPng
  /\ table = NoTable
  /\ diags = <<>>
  /\ entries = <<>>
  /\ dispatched = <<>>

NoExtensions == [mUseFloatTexture |-> FALSE, mHasNpot |-> FALSE,
                 mMaxTextureSize |-> 0, texelBytes |-> 0]

NoGradient == [count |-> 0, colors |-> "none"]

NoTexture == [gradient |-> NoGradient, bytes |-> 0, hit |-> FALSE]

\* the state of the gradient cache variables while aapt2 runs
GIdle ==
  /\ g_pc = "off"
  /\ g_ext = NoExtensions
  /\ mMaxSize = 0
  /\ mSize = 0
  /\ mCache = <<>>
  /\ g_gradient = NoGradient
  /\ g_size = 0
  /\ g_evicted = 0
  /\ g_texture = NoTexture
  /\ g_allFit = TRUE

\* the state of the classification variables while compile() runs
PIdle ==
  /\ p_pc = "idle"
  /\ p_path = W_empty
  /\ p_data = NoData
  /\ p_name = W_empty
  /\ p_sel = NoDispatch
  /\ p_translatable = TRUE

(***************************************************************************)
(* Classification run: one path taken through extractResourcePathData,     *)
(* buildIntermediateFilename, the dispatch of compile() and the parser     *)
(* options of compileTable.                                                *)
(***************************************************************************)
DirTokens ==
  { W_values, W_values \o <<"-">> \o W_fr, W_layout,
    W_layout \o <<"-">> \o W_v21, W_drawable,
    W_drawable \o <<"-">> \o W_hdpi,
    W_drawable \o <<"-">> \o W_fr \o <<"-">> \o W_hdpi,
    W_drawable \o <<"-">>, W_raw, W_xml, W_bogus,
    W_layout \o <<"-">> \o W_zz }

NameTokens == { <<"a">>, W_donottranslate, W_empty }

\* what follows the name: nothing, or a dot and an extension
SuffixTokens ==
  { W_empty, <<".">>, <<".">> \o W_xml, <<".">> \o W_png,
    <<".">> \o W_9png, <<".">> \o W_txt,
    <<".">> \o W_donottranslate \o <<".">> \o W_xml }

FileNames == { n \o x : n \in NameTokens, x \in SuffixTokens } \ { W_empty }

RECURSIVE PrefixOf(_)
PrefixOf(n) == IF n = 0 THEN W_empty ELSE W_res \o <<sDirSep>> \o PrefixOf(n - 1)

SamplePaths ==
  FileNames \cup
  { PrefixOf(n) \o appendPath(d, f) :
      n \in 0..MaxPrefix, d \in DirTokens, f \in FileNames }

PInit ==
  /\ p_pc = "path"
  /\ p_path \in SamplePaths
  /\ p_data = NoData
  /\ p_name = W_empty
  /\ p_sel = NoDispatch
  /\ p_translatable = TRUE
  /\ MIdle
  /\ GIdle

P_Classify ==
  /\ p_pc = "path"
  /\ p_data' = extractResourcePathData(p_path)
  /\ p_pc' = IF p_data'.ok THEN "classified" ELSE "rejected"
  /\ UNCHANGED <<p_path, p_name, p_sel, p_translatable>>
  /\ UNCHANGED <<mvars, gvars>>

P_BuildName ==
  /\ p_pc = "classified"
  /\ p_name' = buildIntermediateFilename(p_data)
  /\ p_pc' = "named"
  /\ UNCHANGED <<p_path, p_data, p_sel, p_translatable>>
  /\ UNCHANGED <<mvars, gvars>>

P_Dispatch ==
  /\ p_pc = "named"
  /\ p_sel' = compile_dispatch(p_data)
  /\ p_pc' = "dispatched"
  /\ UNCHANGED <<p_path, p_data, p_name, p_translatable>>
  /\ UNCHANGED <<mvars, gvars>>

P_ParserOptions ==
  /\ p_pc = "dispatched"
  /\ p_sel.step = "compileTable"
  /\ p_translatable' = compileTable_translatable(p_sel.data)
  /\ p_pc' = "options"
  /\ UNCHANGED <<p_path, p_data, p_name, p_sel>>
  /\ UNCHANGED <<mvars, gvars>>

PNext == P_Classify \/ P_BuildName \/ P_Dispatch \/ P_ParserOptions

SpecPath == PInit /\ [][PNext]_vars

(***************************************************************************)
(* loadInputFilesFromDir: the two-level walk of the resource root.  A      *)
(* directory entry is [name, isDir, canOpen, leaves], in readdir() order.  *)
(***************************************************************************)
RECURSIVE walkLeaves(_, _, _)
walkLeaves(prefixPath, leaves, out) ==
  IF leaves = <<>> THEN [ok |-> TRUE, data |-> out]
  ELSE IF isHidden(Head(leaves)) THEN walkLeaves(prefixPath, Tail(leaves), out)
  ELSE LET pathData == extractResourcePathData(appendPath(prefixPath, Head(leaves)))
       IN IF ~pathData.ok THEN [ok |-> FALSE, data |-> out]
          ELSE walkLeaves(prefixPath, Tail(leaves), Append(out, pathData))

RECURSIVE walkRoot(_, _, _)
walkRoot(rootDir, dirEntries, out) ==
  IF dirEntries = <<>> THEN [ok |-> TRUE, data |-> out]
  ELSE LET entry == Head(dirEntries) IN
    IF isHidden(entry.name) THEN walkRoot(rootDir, Tail(dirEntries), out)
    ELSE IF ~entry.isDir THEN walkRoot(rootDir, Tail(dirEntries), out)
    ELSE IF ~entry.canOpen THEN [ok |-> FALSE, data |-> out]
    ELSE LET sub == walkLeaves(appendPath(rootDir, entry.name), entry.leaves, out)
         IN IF ~sub.ok THEN sub
            ELSE walkRoot(rootDir, Tail(dirEntries), sub.data)

loadInputFilesFromDir(rootDir, rootOpens, dirEntries) ==
  IF ~rootOpens THEN [ok |-> FALSE, data |-> <<>>]
  ELSE walkRoot(rootDir, dirEntries, <<>>)

\* the explicit mode of compile(): classify the arguments in order, stop at
\* the first one that does not classify
RECURSIVE classifyArgs_skipUnclassified(_, _)
classifyArgs_skipUnclassified(argList, out) ==
  IF argList = <<>> THEN [ok |-> TRUE, data |-> out]
  ELSE LET pathData == extractResourcePathData(Head(argList)) IN
    IF pathData.ok
    THEN classifyArgs_skipUnclassified(Tail(argList), Append(out, pathData))
    ELSE classifyArgs_skipUnclassified(Tail(argList), out)

RECURSIVE classifyArgs(_, _)
classifyArgs(argList, out) ==
  IF argList = <<>> THEN [ok |-> TRUE, data |-> out]
  ELSE LET pathData == extractResourcePathData(Head(argList)) IN
    IF pathData.ok THEN classifyArgs(Tail(argList), Append(out, pathData))
    ELSE [ok |-> FALSE, data |-> out]

\* which archive writer compile() creates
createArchiveWriter_byOutputPath(resDirGiven, outPath) ==
  IF Len(outPath) >= 4
       /\ SubSeq(outPath, Len(outPath) - 3, Len(outPath)) = <<".">> \o W_zip
  THEN "zip" ELSE "dir"

createArchiveWriter(resDirGiven, outPath) ==
  IF resDirGiven THEN "zip" ELSE "dir"

(***************************************************************************)
(* The inputs of one invocation of compile().                              *)
(***************************************************************************)
P_valuesXml == appendPath(appendPath(W_res, W_values), <<"a", ".">> \o W_xml)
P_layoutXml == appendPath(appendPath(W_res, W_layout), <<"m", ".">> \o W_xml)
P_drawablePng ==
  appendPath(appendPath(W_res, W_drawable \o <<"-">> \o W_hdpi),
             <<"i", ".">> \o W_9png)
P_drawablePlainPng ==
  appendPath(appendPath(W_res, W_drawable), <<"p", ".">> \o W_png)
P_rawXml == appendPath(appendPath(W_res, W_raw), <<"r", ".">> \o W_xml)
P_bogusTxt == appendPath(appendPath(W_res, W_bogus), <<"b", ".">> \o W_txt)
P_noDir == <<"n", ".">> \o W_xml
P_badConfig ==
  appendPath(appendPath(W_res, W_layout \o <<"-">> \o W_zz), <<"m", ".">> \o W_xml)

ArgPaths ==
  { P_valuesXml, P_layoutXml, P_drawablePng, P_drawablePlainPng, P_rawXml, P_bogusTxt, P_noDir,
    P_badConfig }

DirEntries ==
  { [name |-> W_values, isDir |-> TRUE, canOpen |-> TRUE,
     leaves |-> << <<"a", ".">> \o W_xml >>],
    [name |-> W_layout, isDir |-> TRUE, canOpen |-> TRUE,
     leaves |-> << <<".", "h">>, <<"m", ".">> \o W_xml >>],
    [name |-> <<".">> \o W_raw, isDir |-> TRUE, canOpen |-> TRUE,
     leaves |-> << <<"r", ".">> \o W_xml >>],
    [name |-> <<"n", ".">> \o W_txt, isDir |-> FALSE, canOpen |-> TRUE,
     leaves |-> <<>>],
    [name |-> W_layout \o <<"-">> \o W_zz, isDir |-> TRUE, canOpen |-> TRUE,
     leaves |-> << <<"m", ".">> \o W_xml >>],
    [name |-> W_drawable, isDir |-> TRUE, canOpen |-> FALSE,
     leaves |-> << <<"i", ".">> \o W_png >>] }

OutputPaths == { <<"o", ".">> \o W_zip, <<"o">> }

SeqsUpTo(S, n) == UNION { [1..k -> S] : k \in 0..n }

Init ==
  /\ PIdle
  /\ GIdle
  /\ pc = "flags"
  /\ outputPath \in OutputPaths
  /\ \/ /\ resDir = <<>>
        /\ flagArgs \in SeqsUpTo(ArgPaths, MaxArgs)
        /\ tree = NoTree
     \/ /\ resDir = <<W_res>>
        /\ flagArgs \in { <<>>, <<P_layoutXml>> }
        /\ tree \in [opens : BOOLEAN, entries : SeqsUpTo(DirEntries, MaxDirs)]
  /\ archiveWriter = "null"
  /\ inputData = <<>>
  /\ idx = 1
  /\ error = FALSE
  /\ ret = -1
  /\ sel = NoDispatch
  /\ inlineDocuments = <<>>
  /\ flattened = 0
  /\ adaptor = FALSE
  /\ hadError = FALSE
  /\ stream = <<>>
  /\ png = NoPng
  /\ table = NoTable
  /\ diags = <<>>
  /\ entries = <<>>
  /\ dispatched = <<>>

(***************************************************************************)
(* compile(): flags, enumeration, writer.                                  *)
(***************************************************************************)
\* flags.parse
ParseFlags ==
  /\ pc = "flags"
  /\ \E parsed \in BOOLEAN :
       IF parsed THEN pc' = "inputs" /\ ret' = ret
       ELSE pc' = "done" /\ ret' = 1
  /\ UNCHANGED <<invars, archiveWriter, inputData, idx, error, stepvars,
                 diags, entries, dispatched>>
  /\ UNCHANGED <<pvars, gvars>>

\* --dir given: no positional files allowed, then walk the directory
LoadInputsFromDir ==
  /\ pc = "inputs"
  /\ resDir # <<>>
  /\ LET loaded == loadInputFilesFromDir(resDir[1], tree.opens, tree.entries) IN
       IF flagArgs # <<>>
       THEN pc' = "done" /\ ret' = 1 /\ inputData' = inputData
       ELSE IF ~loaded.ok
       THEN pc' = "done" /\ ret' = 1 /\ inputData' = loaded.data
       ELSE pc' = "writer" /\ ret' = ret /\ inputData' = loaded.data
  /\ UNCHANGED <<invars, archiveWriter, idx, error, stepvars, diags,
                 entries, dispatched>>
  /\ UNCHANGED <<pvars, gvars>>

\* no --dir: classify every positional file
LoadInputsFromArgs ==
  /\ pc = "inputs"
  /\ resDir = <<>>
  /\ LET loaded == classifyArgs(flagArgs, <<>>) IN
       IF ~loaded.ok
       THEN pc' = "done" /\ ret' = 1 /\ inputData' = loaded.data
       ELSE pc' = "writer" /\ ret' = ret /\ inputData' = loaded.data
  /\ UNCHANGED <<invars, archiveWriter, idx, error, stepvars, diags,
                 entries, dispatched>>
  /\ UNCHANGED <<pvars, gvars>>

\* createZipFileArchiveWriter / createDirectoryArchiveWriter and the null check
CreateWriter ==
  /\ pc = "writer"
  /\ \E created \in BOOLEAN :
       IF created
       THEN /\ archiveWriter' = createArchiveWriter(resDir # <<>>, outputPath)
            /\ pc' = "loop"
            /\ ret' = ret
       ELSE /\ archiveWriter' = "null"
            /\ pc' = "done"
            /\ ret' = 1
  /\ UNCHANGED <<invars, inputData, idx, error, stepvars, diags, entries,
                 dispatched>>
  /\ UNCHANGED <<pvars, gvars>>

(***************************************************************************)
(* compile(): the loop over the inputs.                                    *)
(***************************************************************************)
\* if (!compileX(...)) { error = true; }
foldError_lastOnly(err, ok) == ~ok

foldError(err, ok) == err \/ ~ok

\* the range-for of compile() moves to the next input whatever the result
nextInput_stopOnFailure(i, ok, n) == IF ok THEN i + 1 ELSE n + 1

nextInput(i, ok, n) == i + 1

\* the result of the latest input and the stage at which its step returned
SetResult(log, ok, stage) ==
  [log EXCEPT ![Len(log)].result = IF ok THEN "ok" ELSE "failed",
              ![Len(log)].stage = stage]

\* context->getDiagnostics()->error(DiagMessage(source) << message); the
\* source is empty for DiagMessage().  diags collects what was reported for
\* the latest input of the loop.
Diag(source, message) ==
  [input |-> idx, source |-> source, message |-> message]

\* a compile step returns (or the input has an invalid file path): the loop
\* body ends.  The locals of the step are gone.
LoopBodyEnds(ok, emitted) ==
  /\ error' = foldError(error, ok)
  /\ idx' = nextInput(idx, ok, Len(inputData))
  /\ dispatched' = SetResult(dispatched, ok, pc)
  /\ diags' = diags \o emitted
  /\ pc' = "loop"
  /\ sel' = NoDispatch
  /\ inlineDocuments' = <<>>
  /\ flattened' = 0
  /\ hadError' = FALSE
  /\ stream' = <<>>
  /\ png' = NoPng
  /\ table' = NoTable

Dispatch ==
  /\ pc = "loop"
  /\ idx <= Len(inputData)
  /\ LET chosen == compile_dispatch(inputData[idx]) IN
       /\ inputData' = [inputData EXCEPT ![idx] = chosen.data]
       /\ IF chosen.failed
          THEN /\ error' = foldError(error, FALSE)
               /\ idx' = nextInput(idx, FALSE, Len(inputData))
               /\ dispatched' =
                    Append(dispatched,
                           [input |-> idx, step |-> chosen.step,
                            result |-> "failed", stage |-> "dispatch"])
               /\ diags' = <<Diag(W_empty, "invalid file path")>>
               /\ pc' = "loop"
               /\ sel' = NoDispatch
          ELSE /\ dispatched' =
                    Append(dispatched,
                           [input |-> idx, step |-> chosen.step,
                            result |-> "running", stage |-> "dispatch"])
               /\ diags' = <<>>
               /\ pc' = "pre"
               /\ sel' = chosen
               /\ UNCHANGED <<error, idx>>
  /\ UNCHANGED <<invars, archiveWriter, ret, inlineDocuments, flattened,
                 adaptor, hadError, stream, png, table, entries>>
  /\ UNCHANGED <<pvars, gvars>>

Return ==
  /\ pc = "loop"
  /\ idx > Len(inputData)
  /\ ret' = IF error THEN 1 ELSE 0
  /\ pc' = "done"
  /\ UNCHANGED <<invars, archiveWriter, inputData, idx, error, stepvars,
                 diags, entries, dispatched>>
  /\ UNCHANGED <<pvars, gvars>>

(***************************************************************************)
(* The stages of a compile step that come before the archive entry.        *)
(***************************************************************************)
\* what Compile.cpp itself reports when a stage before the entry fails; the
\* parsers and codecs report their own errors
PreStageDiagnostic(outcome) ==
  IF outcome \in {"open", "read", "mmap"}
  THEN <<Diag(sel.data.source, "system error")>>
  ELSE IF outcome = "ninePatch"
  THEN <<Diag(W_empty, "nine-patch error")>>
  ELSE <<>>

\* return false before the entry is started: the writer is not touched
PreStageFailed_entryStarted(outcome) ==
  /\ entries' =
       Append(entries,
              [name |-> sel.outputFilename, input |-> idx, status |-> "open",
               whileOpen |-> FALSE, adaptorAtFinish |-> FALSE,
               count |-> 0, records |-> 0])
  /\ LoopBodyEnds(FALSE, PreStageDiagnostic(outcome))

PreStageFailed(outcome) ==
  /\ entries' = entries
  /\ LoopBodyEnds(FALSE, PreStageDiagnostic(outcome))

PreStage(step, outcomes, nextStage, documentLists, pngs, tables) ==
  /\ pc = "pre"
  /\ sel.step = step
  /\ \E outcome \in outcomes \cup {"ok"} :
       IF outcome = "ok"
       THEN /\ pc' = nextStage
            /\ inlineDocuments' \in documentLists
            /\ png' \in pngs
            /\ table' \in tables
            /\ UNCHANGED <<error, idx, dispatched, diags, sel, flattened,
                           hadError, stream, entries>>
       ELSE PreStageFailed(outcome)
  /\ UNCHANGED <<invars, archiveWriter, inputData, ret, adaptor>>
  /\ UNCHANGED <<pvars, gvars>>

\* a package of the table: its name and its optional id, <<>> when unset
PackageNames == { W_empty, <<"a">> }
PackageIds == { <<>>, <<0>>, <<127>> }

\* what table.packages can hold when the parser is done
ParsedTables ==
  { t \in SeqsUpTo([name : PackageNames, id : PackageIds],
                   Cardinality(PackageNames)) :
      \A i, j \in 1..Len(t) : i # j => t[i].name # t[j].name }

\* compileTable up to the end of parsing and pseudo-localization
CompileTable_Parse ==
  PreStage("compileTable", {"open", "parse", "pseudolocale"}, "packages",
           {<<>>}, {NoPng},
           { [parsed |-> t, packages |-> t] : t \in ParsedTables })

\* context->getCompilationPackage() and context->getPackageId()
getCompilationPackage == W_empty
getPackageId == 0

\* ResourceTable::createPackage: the package of that name, created without
\* an id when the table has none
createPackage(packages, name) ==
  IF \E i \in 1..Len(packages) : packages[i].name = name
  THEN packages
  ELSE Append(packages, [name |-> name, id |-> <<>>])

\* compileTable: if (!pkg->id) pkg->id = context->getPackageId()
assignPackageIds_all(packages, defaultId) ==
  [i \in 1..Len(packages) |-> [packages[i] EXCEPT !.id = <<defaultId>>]]

assignPackageIds(packages, defaultId) ==
  [i \in 1..Len(packages) |->
     IF packages[i].id = <<>>
     THEN [packages[i] EXCEPT !.id = <<defaultId>>]
     ELSE packages[i]]

\* compileTable: the compilation package and the package ids
CompileTable_Packages ==
  /\ pc = "packages"
  /\ sel.step = "compileTable"
  /\ table' =
       [table EXCEPT !.packages =
          assignPackageIds(createPackage(table.packages, getCompilationPackage),
                           getPackageId)]
  /\ pc' = "start"
  /\ UNCHANGED <<invars, archiveWriter, inputData, idx, error, ret, sel,
                 inlineDocuments, flattened, adaptor, hadError, stream, png,
                 diags, entries, dispatched>>
  /\ UNCHANGED <<pvars, gvars>>

\* all the orders in which the extractor can have put its sub-documents
InlineDocumentLists ==
  { d \in SeqsUpTo(1..MaxInline, MaxInline) :
      \A i, j \in 1..Len(d) : i # j => d[i] # d[j] }

\* compileXml up to the inline-fragment extraction
CompileXml_Inflate ==
  PreStage("compileXml", {"open", "inflate", "collectIds", "extractInline"},
           "start", InlineDocumentLists, {NoPng}, {NoTable})

\* compilePng: which bytes go into the entry
compilePng_payload_smallerOnly(ninePatch, crunchedBytes, filteredBytes) ==
  IF ninePatch \/ crunchedBytes < filteredBytes
  THEN [from |-> "crunched", bytes |-> crunchedBytes]
  ELSE [from |-> "filteredOriginal", bytes |-> filteredBytes]

compilePng_payload(ninePatch, crunchedBytes, filteredBytes) ==
  IF ninePatch \/ crunchedBytes <= filteredBytes
  THEN [from |-> "crunched", bytes |-> crunchedBytes]
  ELSE [from |-> "filteredOriginal", bytes |-> filteredBytes]

\* compilePng after a successful decode and re-encode: a 9-patch exists
\* exactly for the extension 9.png
PngResults(data) ==
  { [ninePatch |-> data.extension = W_9png,
     crunched |-> c, filtered |-> f,
     payload |-> compilePng_payload(data.extension = W_9png, c, f)] :
      c \in 1..MaxPngBytes, f \in 1..MaxPngBytes }

\* compilePng up to the choice of the payload (and the legacy cruncher of
\* the verbose mode)
CompilePng_Crunch ==
  PreStage("compilePng",
           {"read", "decode", "encode", "legacy"} \cup
             (IF sel.data.ok /\ sel.data.extension = W_9png
              THEN {"ninePatch"} ELSE {}),
           "start", {<<>>},
           IF sel.data.ok THEN PngResults(sel.data) ELSE {NoPng}, {NoTable})

\* compileFile: mmap of the input
CompileFile_Mmap ==
  PreStage("compileFile", {"mmap"}, "start", {<<>>}, {NoPng}, {NoTable})

(***************************************************************************)
(* The archive entry of a compile step: startEntry, the adaptor block and  *)
(* finishEntry.  An entry of the log is open from a successful startEntry  *)
(* until finishEntry is called for it.                                     *)
(***************************************************************************)
OpenEntries == { j \in 1..Len(entries) : entries[j].status = "open" }

StartEntry(step) ==
  /\ pc = "start"
  /\ sel.step = step
  /\ \E started \in BOOLEAN :
       /\ entries' =
            Append(entries,
                   [name |-> sel.outputFilename, input |-> idx,
                    status |-> IF started THEN "open" ELSE "refused",
                    whileOpen |-> OpenEntries # {},
                    adaptorAtFinish |-> FALSE,
                    count |-> 0, records |-> 0])
       /\ IF started
          THEN /\ pc' = "adaptor"
               /\ UNCHANGED <<error, idx, dispatched, diags, sel,
                              inlineDocuments, flattened, hadError, stream,
                              png, table>>
          ELSE LoopBodyEnds(FALSE, <<Diag(sel.outputFilename, "failed to open")>>)
  /\ UNCHANGED <<invars, archiveWriter, inputData, ret, adaptor>>
  /\ UNCHANGED <<pvars, gvars>>

CompileTable_StartEntry == StartEntry("compileTable")
CompileXml_StartEntry == StartEntry("compileXml")
WriteHeaderAndBuffer_StartEntry == StartEntry("compilePng")
WriteHeaderAndMmap_StartEntry == StartEntry("compileFile")

\* CopyingOutputStreamAdaptor copyingAdaptor(writer), and the
\* CompiledFileOutputStream on top of it
OpenAdaptor(step) ==
  /\ pc = "adaptor"
  /\ sel.step = step
  /\ adaptor' = TRUE
  /\ hadError' = FALSE
  /\ stream' = <<>>
  /\ pc' = "write"
  /\ UNCHANGED <<invars, archiveWriter, inputData, idx, error, ret, sel,
                 inlineDocuments, flattened, png, table, diags, entries,
                 dispatched>>
  /\ UNCHANGED <<pvars, gvars>>

CompileTable_OpenAdaptor == OpenAdaptor("compileTable")
CompileXml_OpenAdaptor == OpenAdaptor("compileXml")
WriteHeaderAndBuffer_OpenAdaptor == OpenAdaptor("compilePng")
WriteHeaderAndMmap_OpenAdaptor == OpenAdaptor("compileFile")

\* return false from inside the adaptor block: the adaptor is destroyed on
\* the way out, finishEntry is not called
ReturnFromBlock(emitted) ==
  /\ adaptor' = FALSE
  /\ LoopBodyEnds(FALSE, emitted)

\* compileTable: SerializeToZeroCopyStream
CompileTable_Serialize ==
  /\ pc = "write"
  /\ sel.step = "compileTable"
  /\ \E serialized \in BOOLEAN :
       IF serialized
       THEN /\ stream' = Append(stream, [kind |-> "table", doc |-> 0, n |-> 0])
            /\ pc' = "close"
            /\ UNCHANGED <<error, idx, dispatched, diags, sel,
                           inlineDocuments, flattened, hadError, adaptor,
                           png, table>>
       ELSE ReturnFromBlock(<<Diag(sel.outputFilename, "failed to write")>>)
  /\ UNCHANGED <<invars, archiveWriter, inputData, ret, entries>>
  /\ UNCHANGED <<pvars, gvars>>

\* what one WriteCompiledFile + WriteData pair puts into the stream
FileRecord(doc) ==
  << [kind |-> "file", doc |-> doc, n |-> 0],
     [kind |-> "data", doc |-> doc, n |-> 0] >>

CountRecord(n) == [kind |-> "count", doc |-> 0, n |-> n]

\* writeHeaderAndBufferToWriter / writeHeaderAndMmapToWriter: the count 1,
\* the compiled file and the data; any of the writes may flag an error
WriteHeaderAnd(step) ==
  /\ pc = "write"
  /\ sel.step = step
  /\ stream' = <<CountRecord(1)>> \o FileRecord(0)
  /\ hadError' \in BOOLEAN
  /\ pc' = "check"
  /\ UNCHANGED <<invars, archiveWriter, inputData, idx, error, ret, sel,
                 inlineDocuments, flattened, adaptor, png, table, diags,
                 entries, dispatched>>
  /\ UNCHANGED <<pvars, gvars>>

WriteHeaderAndBuffer_Write == WriteHeaderAnd("compilePng")
WriteHeaderAndMmap_Write == WriteHeaderAnd("compileFile")

\* if (outputStream.HadError()) return false;
CheckHadError(step) ==
  /\ pc = "check"
  /\ sel.step = step
  /\ IF hadError
     THEN ReturnFromBlock(<<Diag(sel.outputFilename, "failed to write data")>>)
     ELSE /\ pc' = "close"
          /\ UNCHANGED <<error, idx, dispatched, diags, sel, inlineDocuments,
                         flattened, hadError, stream, adaptor, png, table>>
  /\ UNCHANGED <<invars, archiveWriter, inputData, ret, entries>>
  /\ UNCHANGED <<pvars, gvars>>

WriteHeaderAndBuffer_CheckHadError == CheckHadError("compilePng")
WriteHeaderAndMmap_CheckHadError == CheckHadError("compileFile")

\* compileXml: the number of compiled files
xmlCount_inlineOnly(documents) == Len(documents)

xmlCount(documents) == 1 + Len(documents)

\* compileXml: the documents in the order they are flattened, 0 is the
\* primary document
xmlDocuments_inlineFirst(documents) == documents \o <<0>>

xmlDocuments(documents) == <<0>> \o documents

CompileXml_WriteCount ==
  /\ pc = "write"
  /\ sel.step = "compileXml"
  /\ stream' = Append(stream, CountRecord(xmlCount(inlineDocuments)))
  /\ flattened' = 0
  /\ pc' = "flatten"
  /\ UNCHANGED <<invars, archiveWriter, inputData, idx, error, ret, sel,
                 inlineDocuments, adaptor, hadError, png, table, diags,
                 entries, dispatched>>
  /\ UNCHANGED <<pvars, gvars>>

\* flattenXmlToOutStream: what is reported when it returns false; the
\* flattener reports its own errors
FlattenDiagnostic(outcome) ==
  IF outcome = "write"
  THEN <<Diag(sel.outputFilename, "failed to write data")>>
  ELSE <<>>

\* what compileXml does when flattenXmlToOutStream returned false
FlattenFailed_goOn(outcome) ==
  /\ pc' = "close"
  /\ diags' = diags \o FlattenDiagnostic(outcome)
  /\ UNCHANGED <<error, idx, dispatched, sel, inlineDocuments, flattened,
                 hadError, stream, adaptor, png, table>>

FlattenFailed(outcome) == ReturnFromBlock(FlattenDiagnostic(outcome))

\* flattenXmlToOutStream for the next document of compileXml
FlattenXmlToOutStream ==
  /\ pc = "flatten"
  /\ sel.step = "compileXml"
  /\ flattened < Len(xmlDocuments(inlineDocuments))
  /\ \E outcome \in {"consume", "write", "ok"} :
       IF outcome = "ok"
       THEN /\ stream' =
                 stream \o FileRecord(xmlDocuments(inlineDocuments)[flattened + 1])
            /\ flattened' = flattened + 1
            /\ pc' = IF flattened' = Len(xmlDocuments(inlineDocuments))
                     THEN "close" ELSE "flatten"
            /\ UNCHANGED <<error, idx, dispatched, diags, sel,
                           inlineDocuments, hadError, adaptor, png, table>>
       ELSE FlattenFailed(outcome)
  /\ UNCHANGED <<invars, archiveWriter, inputData, ret, entries>>
  /\ UNCHANGED <<pvars, gvars>>

\* the end of the adaptor block: the adaptor is destroyed
CloseAdaptor_keepAlive(step) ==
  /\ pc = "close"
  /\ sel.step = step
  /\ adaptor' = adaptor
  /\ pc' = "finish"
  /\ UNCHANGED <<invars, archiveWriter, inputData, idx, error, ret, sel,
                 inlineDocuments, flattened, hadError, stream, png, table,
                 diags, entries, dispatched>>
  /\ UNCHANGED <<pvars, gvars>>

CloseAdaptor(step) ==
  /\ pc = "close"
  /\ sel.step = step
  /\ adaptor' = FALSE
  /\ pc' = "finish"
  /\ UNCHANGED <<invars, archiveWriter, inputData, idx, error, ret, sel,
                 inlineDocuments, flattened, hadError, stream, png, table,
                 diags, entries, dispatched>>
  /\ UNCHANGED <<pvars, gvars>>

CompileTable_CloseAdaptor == CloseAdaptor("compileTable")
CompileXml_CloseAdaptor == CloseAdaptor("compileXml")
WriteHeaderAndBuffer_CloseAdaptor == CloseAdaptor("compilePng")
WriteHeaderAndMmap_CloseAdaptor == CloseAdaptor("compileFile")

\* the count at the head of what was written, -1 when there is none, and
\* the number of (compiled file, data) records behind it
HeaderCount(written) ==
  IF written # <<>> /\ written[1].kind = "count" THEN written[1].n ELSE -1

RecordCount(written) ==
  Cardinality({ i \in 1..Len(written) : written[i].kind = "file" })

\* the value a compile step returns after finishEntry
finishResult(finished) == finished

\* writer->finishEntry() for the entry this step started, and the return
FinishEntry(step) ==
  /\ pc = "finish"
  /\ sel.step = step
  /\ \E finished \in BOOLEAN :
       /\ entries' =
            [entries EXCEPT ![Len(entries)].status =
                              IF finished THEN "closed" ELSE "failed",
                            ![Len(entries)].adaptorAtFinish = adaptor,
                            ![Len(entries)].count = HeaderCount(stream),
                            ![Len(entries)].records = RecordCount(stream)]
       /\ LoopBodyEnds(finishResult(finished),
                       IF finished THEN <<>>
                       ELSE <<Diag(sel.outputFilename, "failed to finish")>>)
  /\ UNCHANGED <<invars, archiveWriter, inputData, ret, adaptor>>
  /\ UNCHANGED <<pvars, gvars>>

CompileTable_FinishEntry == FinishEntry("compileTable")
CompileXml_FinishEntry == FinishEntry("compileXml")
WriteHeaderAndBuffer_FinishEntry == FinishEntry("compilePng")
WriteHeaderAndMmap_FinishEntry == FinishEntry("compileFile")

Next ==
  \/ ParseFlags
  \/ LoadInputsFromDir
  \/ LoadInputsFromArgs
  \/ CreateWriter
  \/ Dispatch
  \/ Return
  \/ CompileTable_Parse
  \/ CompileTable_Packages
  \/ CompileTable_StartEntry
  \/ CompileTable_OpenAdaptor
  \/ CompileTable_Serialize
  \/ CompileTable_CloseAdaptor
  \/ CompileTable_FinishEntry
  \/ CompileXml_Inflate
  \/ CompileXml_StartEntry
  \/ CompileXml_OpenAdaptor
  \/ CompileXml_WriteCount
  \/ FlattenXmlToOutStream
  \/ CompileXml_CloseAdaptor
  \/ CompileXml_FinishEntry
  \/ CompilePng_Crunch
  \/ WriteHeaderAndBuffer_StartEntry
  \/ WriteHeaderAndBuffer_OpenAdaptor
  \/ WriteHeaderAndBuffer_Write
  \/ WriteHeaderAndBuffer_CheckHadError
  \/ WriteHeaderAndBuffer_CloseAdaptor
  \/ WriteHeaderAndBuffer_FinishEntry
  \/ CompileFile_Mmap
  \/ WriteHeaderAndMmap_StartEntry
  \/ WriteHeaderAndMmap_OpenAdaptor
  \/ WriteHeaderAndMmap_Write
  \/ WriteHeaderAndMmap_CheckHadError
  \/ WriteHeaderAndMmap_CloseAdaptor
  \/ WriteHeaderAndMmap_FinishEntry

Spec == Init /\ [][Next]_vars

(***************************************************************************)
(* Properties of compile().                                                *)
(***************************************************************************)
SomeInputFailed ==
  \E j \in 1..Len(dispatched) : dispatched[j].result = "failed"

\* C1: once the archive writer exists, compile() returns 1 exactly when at
\* least one input of the batch failed and 0 otherwise; the error flag is
\* set from the first failure on, a later success does not reset it.
C1_ReturnsOneIffSomeInputFailed ==
  archiveWriter # "null" =>
    /\ error <=> SomeInputFailed
    /\ pc = "done" => ret = IF SomeInputFailed THEN 1 ELSE 0

\* a batch whose first input failed and whose second succeeded returned 1
C1_Witness ==
  /\ pc = "done"
  /\ ret = 1
  /\ Len(dispatched) = 2
  /\ dispatched[1].result = "failed"
  /\ dispatched[2].result = "ok"

\* C2: every classified input is dispatched exactly once, in enumeration
\* order, whether or not earlier inputs failed; archive entries are started
\* in input order.
C2_EveryInputOnceInOrder ==
  /\ Len(dispatched) <= Len(inputData)
  /\ \A j \in 1..Len(dispatched) : dispatched[j].input = j
  /\ (pc = "done" /\ archiveWriter # "null") =>
       Len(dispatched) = Len(inputData)
  /\ \A a, b \in 1..Len(entries) :
       a < b => entries[a].input < entries[b].input

\* the first input failed, the second was compiled into a closed entry
C2_Witness ==
  /\ pc = "done"
  /\ Len(inputData) = 2
  /\ Len(dispatched) = 2
  /\ dispatched[1].result = "failed"
  /\ dispatched[2].result = "ok"
  /\ entries # <<>>
  /\ entries[Len(entries)].input = 2
  /\ entries[Len(entries)].status = "closed"

\* C3: at most one archive entry is open; startEntry is never called while
\* an entry started earlier has not been closed with finishEntry.
C3_AtMostOneEntryOpen ==
  /\ Cardinality(OpenEntries) <= 1
  /\ \A j \in 1..Len(entries) : ~entries[j].whileOpen

\* C4: if an input path fails classification, or the directory walk fails,
\* compile() returns 1 before any compile step: nothing is dispatched and no
\* archive entry is started.
ArgFailsClassification ==
  /\ resDir = <<>>
  /\ \E i \in 1..Len(flagArgs) :
       LET parts == split(flagArgs[i], sDirSep) IN
         \/ Len(parts) < 2
         \/ LET D == parts[Len(parts) - 1] IN
              /\ Find(D, "-") # 0
              /\ SubSeq(D, Find(D, "-") + 1, Len(D)) \notin ValidConfigs

DirWalkFails ==
  /\ resDir # <<>>
  /\ flagArgs = <<>>
  /\ \/ ~tree.opens
     \/ \E i \in 1..Len(tree.entries) :
          LET e == tree.entries[i] IN
            /\ e.name[1] # "."
            /\ e.isDir
            /\ \/ ~e.canOpen
               \/ \E l \in 1..Len(e.leaves) :
                    /\ e.leaves[l][1] # "."
                    /\ Find(e.name, "-") # 0
                    /\ SubSeq(e.name, Find(e.name, "-") + 1, Len(e.name))
                         \notin ValidConfigs

C4_ClassificationFailureAbortsBatch ==
  (pc \notin {"flags", "inputs"} /\ (ArgFailsClassification \/ DirWalkFails))
    => /\ pc = "done"
       /\ ret = 1
       /\ dispatched = <<>>
       /\ entries = <<>>
       /\ archiveWriter = "null"

\* a valid path followed by a malformed one: the valid one was classified,
\* compile() returned 1 and nothing was compiled
C4_Witness ==
  /\ pc = "done"
  /\ flagArgs = <<P_valuesXml, P_noDir>>
  /\ Len(inputData) = 1
  /\ ret = 1
  /\ entries = <<>>

\* C5: the stream adaptor is released on every way out of the block that
\* created it, and finishEntry is only called once it has been released.
C5_AdaptorReleasedBeforeFinish ==
  /\ pc \notin {"write", "check", "flatten", "close"} => ~adaptor
  /\ \A j \in 1..Len(entries) : ~entries[j].adaptorAtFinish

\* one entry was left by a failed write, a later one was finished
C5_Witness ==
  /\ pc = "loop"
  /\ entries # <<>>
  /\ \E j \in 1..Len(entries) : entries[j].status = "open"
  /\ entries[Len(entries)].status = "closed"
  /\ ~adaptor

EndsWithZip(path) ==
  /\ Len(path) >= 4
  /\ SubSeq(path, Len(path) - 3, Len(path)) = <<".">> \o W_zip

\* C9 as stated: the zip writer is used exactly when the output path ends
\* in .zip.
C9_ZipIffOutputPathIsArchive ==
  archiveWriter # "null" => (archiveWriter = "zip" <=> EndsWithZip(outputPath))

\* C9 amended: the zip writer is used exactly when --dir is given, the
\* directory writer exactly when the inputs are positional files; the
\* output path plays no part.
C9_ZipIffDirMode ==
  archiveWriter # "null" =>
    /\ archiveWriter = "zip" <=> resDir # <<>>
    /\ archiveWriter = "dir" <=> resDir = <<>>

\* positional files written to an output path ending in .zip use the
\* directory writer
C9_Witness ==
  /\ archiveWriter = "dir"
  /\ EndsWithZip(outputPath)
  /\ resDir = <<>>
  /\ entries # <<>>

\* what the entry of an XML input holds when all its documents are written
ExpectedXmlStream(documents) ==
  [i \in 1..(3 + 2 * Len(documents)) |->
     IF i = 1 THEN [kind |-> "count", doc |-> 0, n |-> 1 + Len(documents)]
     ELSE LET position == (i - 2) \div 2
              doc == IF position = 0 THEN 0 ELSE documents[position]
          IN [kind |-> IF (i - 2) % 2 = 0 THEN "file" ELSE "data",
              doc |-> doc, n |-> 0]]

IsPrefix(a, b) == Len(a) <= Len(b) /\ a = SubSeq(b, 1, Len(a))

\* C10: for an XML input with k extracted sub-documents the count 1 + k is
\* written first, then the record of the primary document, then the k
\* records of the sub-documents in the extractor's order.
C10_XmlCountThenDocumentsInOrder ==
  (sel.step = "compileXml" /\ pc \in {"flatten", "close", "finish"}) =>
    /\ stream # <<>>
    /\ IsPrefix(stream, ExpectedXmlStream(inlineDocuments))
    /\ Len(stream) = 1 + 2 * flattened
    /\ pc \in {"close", "finish"} =>
         stream = ExpectedXmlStream(inlineDocuments)

\* an XML input with two sub-documents, second-numbered one extracted first,
\* is completely written
C10_Witness ==
  /\ sel.step = "compileXml"
  /\ pc = "finish"
  /\ inlineDocuments = <<2, 1>>
  /\ Len(stream) = 7
  /\ stream[1].n = 3
  /\ stream[4].doc = 2

(***************************************************************************)
(* Properties of the classification run.                                   *)
(***************************************************************************)
\* the last two components of a path, read off the path itself
DirTokenOf(path) == split(path, sDirSep)[Len(split(path, sDirSep)) - 1]
FileNameOf(path) == split(path, sDirSep)[Len(split(path, sDirSep))]

\* D is "type" or "type-qual" with a qualifier, the filename is "name.ext"
\* with an extension
WellFormedPath(path) ==
  /\ Len(split(path, sDirSep)) >= 2
  /\ LET D == DirTokenOf(path) IN Find(D, "-") # 0 => Find(D, "-") < Len(D)
  /\ LET f == FileNameOf(path) IN Find(f, ".") # 0 /\ Find(f, ".") < Len(f)

\* C6: the driver picks one action per classified input by the decision
\* order values -> Values Compiler with extension arsc; unknown type ->
\* InvalidFilePath, no compiler, input failed; raw -> File Compiler whatever
\* the extension; xml -> XML Compiler; png or 9.png -> PNG Compiler; else
\* File Compiler.
C6_DecisionOrder ==
  p_pc \in {"dispatched", "options"} =>
    LET d == p_data
        isValues == d.resourceDir = W_values
        known == d.resourceDir \in KnownTypes
        isRaw == d.resourceDir = W_raw
        isXml == d.extension = W_xml
        isPng == d.extension \in {W_png, W_9png}
    IN
    /\ p_sel.step \in {"compileTable", "compileXml", "compilePng",
                       "compileFile", "none"}
    /\ isValues =>
         /\ p_sel.step = "compileTable"
         /\ p_sel.data.extension = W_arsc
         /\ ~p_sel.failed
    /\ (~isValues /\ ~known) => (p_sel.step = "none" /\ p_sel.failed)
    /\ (~isValues /\ known /\ isRaw) =>
         (p_sel.step = "compileFile" /\ ~p_sel.failed)
    /\ (~isValues /\ known /\ ~isRaw /\ isXml) =>
         (p_sel.step = "compileXml" /\ ~p_sel.failed)
    /\ (~isValues /\ known /\ ~isRaw /\ ~isXml /\ isPng) =>
         (p_sel.step = "compilePng" /\ ~p_sel.failed)
    /\ (~isValues /\ known /\ ~isRaw /\ ~isXml /\ ~isPng) =>
         (p_sel.step = "compileFile" /\ ~p_sel.failed)
    /\ ~isValues => p_sel.data = d

\* a raw input with extension xml went to the File Compiler
C6_Witness ==
  /\ p_pc = "dispatched"
  /\ p_data.resourceDir = W_raw
  /\ p_data.extension = W_xml
  /\ p_sel.step = "compileFile"

\* C7: for a well-formed path .../D/name.ext the entry name built from the
\* classification result is D + "_" + name.ext + ".flat", with no dash after
\* the type when D has no qualifier.
C7_EntryNameRoundTrip ==
  (p_pc \in {"named", "dispatched", "options"} /\ WellFormedPath(p_path)) =>
    p_name = DirTokenOf(p_path) \o <<"_">> \o FileNameOf(p_path)
               \o <<".">> \o W_flat

\* a path without qualifier was named, and its name has no dash
C7_Witness ==
  /\ p_pc = "named"
  /\ WellFormedPath(p_path)
  /\ DirTokenOf(p_path) = W_drawable
  /\ FileNameOf(p_path) = <<"a">> \o <<".">> \o W_9png
  /\ Find(p_name, "-") = 0

\* C8: the parser's default translatable flag is false exactly when the
\* filename (the last path component) contains "donottranslate".
C8_TranslatableIffFilename ==
  p_pc = "options" =>
    (p_translatable = FALSE
       <=> Contains(FileNameOf(p_path), W_donottranslate))

\* the PNG step of the current input has chosen its payload
PngPayloadChosen ==
  /\ sel.step = "compilePng"
  /\ pc \in {"start", "adaptor", "write", "check", "close", "finish"}

\* C11: the payload of a PNG entry is the re-encoded image when the input is
\* a 9-patch, whatever the sizes; otherwise it is the re-encoded image when
\* that is no larger than the filtered original (a tie goes to the
\* re-encoded image), and the filtered original, byte for byte, when the
\* re-encoded image is strictly larger.
C11_PngPayloadSelection ==
  PngPayloadChosen =>
    /\ png.ninePatch = (sel.data.extension = W_9png)
    /\ png.ninePatch =>
         png.payload = [from |-> "crunched", bytes |-> png.crunched]
    /\ (~png.ninePatch /\ png.crunched <= png.filtered) =>
         png.payload = [from |-> "crunched", bytes |-> png.crunched]
    /\ (~png.ninePatch /\ png.crunched > png.filtered) =>
         png.payload = [from |-> "filteredOriginal", bytes |-> png.filtered]

\* a plain PNG whose re-encoding came out as large as the filtered original
\* is about to be written, and the re-encoded image was taken
C11_Witness ==
  /\ PngPayloadChosen
  /\ pc = "write"
  /\ ~png.ninePatch
  /\ png.crunched = png.filtered
  /\ png.payload.from = "crunched"


\* C12: every error reported while an input is being compiled has that
\* input's source path as its source, and the input it was reported for is
\* marked failed.
C12_ErrorsCarryInputSource ==
  \A k \in 1..Len(diags) :
    /\ diags[k].source = inputData[diags[k].input].source
    /\ diags[k].input <= Len(dispatched)
    /\ dispatched[diags[k].input].result = "failed"


\* the directory mode has finished enumerating
DirEnumerated == resDir # <<>> /\ pc \notin {"flags", "inputs"}

\* the components of a path
Components(path) == split(path, sDirSep)

StartsWithDot(component) == component # <<>> /\ component[1] = "."

\* the paths a walk of the tree has to deliver: the visible leaves of the
\* visible directories under the root
VisibleLeafPaths ==
  { appendPath(appendPath(resDir[1], tree.entries[i].name),
               tree.entries[i].leaves[l]) :
      <<i, l>> \in
        { x \in (1..Len(tree.entries)) \X (1..2) :
            /\ tree.entries[x[1]].isDir
            /\ ~StartsWithDot(tree.entries[x[1]].name)
            /\ x[2] <= Len(tree.entries[x[1]].leaves)
            /\ ~StartsWithDot(tree.entries[x[1]].leaves[x[2]]) } }

\* C13: directory enumeration never yields a path whose last or penultimate
\* component starts with '.'; and when nothing else fails, the non-directory
\* children of the root are skipped without error: the walk succeeds and
\* delivers exactly the visible leaves of the visible directories.
C13_EnumerationSkipsHidden ==
  /\ [](DirEnumerated =>
         \A i \in 1..Len(inputData) :
           LET parts == Components(inputData[i].source) IN
             /\ Len(parts) >= 2
             /\ ~StartsWithDot(parts[Len(parts)])
             /\ ~StartsWithDot(parts[Len(parts) - 1]))
  /\ [][(pc = "inputs" /\ resDir # <<>> /\ flagArgs = <<>> /\ ~DirWalkFails)
          => /\ pc' = "writer"
             /\ { inputData'[i].source : i \in 1..Len(inputData') }
                  = VisibleLeafPaths]_vars

\* a tree with a directory holding a hidden file and a visible one, next to
\* a plain file in the root: the walk went through and delivered one input
C13_Witness ==
  /\ DirEnumerated
  /\ pc = "loop"
  /\ Len(tree.entries) = 2
  /\ \E i \in 1..2 : ~tree.entries[i].isDir
  /\ \E i \in 1..2 :
       /\ tree.entries[i].isDir
       /\ \E l \in 1..Len(tree.entries[i].leaves) :
            StartsWithDot(tree.entries[i].leaves[l])
  /\ Len(inputData) = 1


\* the values step of the current input is past its package step
PackagesAssigned ==
  /\ sel.step = "compileTable"
  /\ pc \in {"start", "adaptor", "write", "close", "finish"}

HasPackage(packages, name) ==
  \E i \in 1..Len(packages) : packages[i].name = name

\* C14: after the package step of the values compiler the compilation
\* package exists in the table and every package has an ID: a package that
\* had none after parsing has the default package ID of the context, a
\* package whose ID was set during parsing has kept it.
C14_EveryPackageHasAnId ==
  PackagesAssigned =>
    /\ HasPackage(table.packages, getCompilationPackage)
    /\ \A i \in 1..Len(table.packages) : table.packages[i].id # <<>>
    /\ Len(table.packages) >= Len(table.parsed)
    /\ \A i \in 1..Len(table.parsed) :
         /\ table.packages[i].name = table.parsed[i].name
         /\ table.parsed[i].id = <<>> =>
              table.packages[i].id = <<getPackageId>>
         /\ table.parsed[i].id # <<>> =>
              table.packages[i].id = table.parsed[i].id

\* the parser left one package with an ID of its own and no compilation
\* package: the former kept its ID, the latter was created with the default
C14_Witness ==
  /\ PackagesAssigned
  /\ pc = "start"
  /\ table.parsed = << [name |-> <<"a">>, id |-> <<127>>] >>
  /\ table.packages = << [name |-> <<"a">>, id |-> <<127>>],
                         [name |-> W_empty, id |-> <<getPackageId>>] >>


\* C15: the filename is split at its first dot: the name is what comes
\* before it and holds no dot, the extension is everything after it
\* (foo.9.png has the name foo and the extension 9.png); a filename without
\* a dot is the name, and the extension is empty.
C15_SplitAtFirstDot ==
  p_pc \in {"classified", "named"} =>
    LET filename == FileNameOf(p_path) IN
      /\ ~Contains(p_data.name, <<".">>)
      /\ Contains(filename, <<".">>) =>
           filename = p_data.name \o <<".">> \o p_data.extension
      /\ ~Contains(filename, <<".">>) =>
           /\ p_data.name = filename
           /\ p_data.extension = W_empty
      /\ filename = <<"a", ".">> \o W_9png =>
           /\ p_data.name = <<"a">>
           /\ p_data.extension = W_9png

\* a.9.png was classified: two dots, and the extension kept the second one
C15_Witness ==
  /\ p_pc = "classified"
  /\ FileNameOf(p_path) = <<"a", ".">> \o W_9png
  /\ p_data.extension = W_9png
  /\ Contains(p_data.extension, <<".">>)


\* the compile step that started entry j
StepOfEntry(j) == dispatched[entries[j].input].step

\* C16: in every entry other than a values entry that a successful
\* finishEntry closed, the count written at its head is the number of
\* (compiled file, data) records written into it: 1 for PNG and file inputs,
\* and an XML entry is never finished with fewer records than its count, also
\* when flattening a sub-document fails part-way.
C16_HeaderCountIsRecordCount ==
  \A j \in 1..Len(entries) :
    (entries[j].status = "closed" /\ StepOfEntry(j) # "compileTable") =>
      /\ entries[j].count = entries[j].records
      /\ StepOfEntry(j) \in {"compilePng", "compileFile"} =>
           entries[j].count = 1

\* an XML input with one inline document was finished with two records, and
\* a PNG input with one
C16_Witness ==
  /\ Len(entries) = 2
  /\ entries[1].status = "closed"
  /\ StepOfEntry(1) = "compileXml"
  /\ entries[1].count = 2
  /\ entries[1].records = 2
  /\ entries[2].status = "closed"
  /\ StepOfEntry(2) = "compilePng"
  /\ entries[2].records = 1


\* the entries input k started
EntriesOf(k) == { j \in 1..Len(entries) : entries[j].input = k }

\* C17: each input triggers at most one startEntry; a compile step returns
\* success only if its startEntry succeeded, every write into the entry came
\* after that startEntry and before the finishEntry, no write error was
\* flagged and the finishEntry of that entry succeeded; so after a
\* successful compile step no entry is left open.
C17_OneEntryPerInputClosedOnSuccess ==
  /\ \A k \in 1..Len(inputData) : Cardinality(EntriesOf(k)) <= 1
  /\ stream # <<>> =>
       /\ entries # <<>>
       /\ entries[Len(entries)].input = idx
       /\ entries[Len(entries)].status = "open"
  /\ pc \in {"close", "finish"} => ~hadError
  /\ \A k \in 1..Len(dispatched) :
       dispatched[k].result = "ok" =>
         /\ dispatched[k].stage = "finish"
         /\ \E j \in EntriesOf(k) : entries[j].status = "closed"
  /\ (pc = "loop" /\ dispatched # <<>>
        /\ dispatched[Len(dispatched)].result = "ok") => OpenEntries = {}

\* the same without the last part: what holds of the entry of the
\* successful step itself
C17_OwnEntryClosedOnSuccess ==
  /\ \A k \in 1..Len(inputData) : Cardinality(EntriesOf(k)) <= 1
  /\ stream # <<>> =>
       /\ entries # <<>>
       /\ entries[Len(entries)].input = idx
       /\ entries[Len(entries)].status = "open"
  /\ pc \in {"close", "finish"} => ~hadError
  /\ \A k \in 1..Len(dispatched) :
       dispatched[k].result = "ok" =>
         /\ dispatched[k].stage = "finish"
         /\ \E j \in EntriesOf(k) : entries[j].status = "closed"


\* input k failed in a stage that precedes writing
FailedBeforeWriting(k) ==
  /\ k <= Len(dispatched)
  /\ dispatched[k].result = "failed"
  /\ dispatched[k].stage = "pre"

\* C18: when an input fails in a stage that precedes writing, startEntry is
\* never called for it and no entry with its name exists afterwards.
C18_NoEntryOfThatName ==
  \A k \in 1..Len(dispatched) :
    FailedBeforeWriting(k) =>
      /\ EntriesOf(k) = {}
      /\ \A j \in 1..Len(entries) :
           entries[j].name # buildIntermediateFilename(inputData[k])

\* C18, amended: when an input fails in a stage that precedes writing,
\* startEntry is never called for it; an entry with its name exists afterwards
\* only if another input of the same name started it.
C18_NoEntryStartedByThatInput ==
  \A k \in 1..Len(dispatched) :
    FailedBeforeWriting(k) =>
      /\ EntriesOf(k) = {}
      /\ \A j \in 1..Len(entries) :
           entries[j].name = buildIntermediateFilename(inputData[k]) =>
             /\ entries[j].input # k
             /\ buildIntermediateFilename(inputData[entries[j].input])
                  = buildIntermediateFilename(inputData[k])

\* the first input failed before writing and started nothing, the second
\* one went on to its entry
C18_Witness ==
  /\ Len(dispatched) = 2
  /\ FailedBeforeWriting(1)
  /\ Len(entries) = 1
  /\ entries[1].input = 2
  /\ entries[1].status = "closed"


(***************************************************************************)
(* GradientCache: get(), addLinearGradient(), clear() and the removal      *)
(* callback of the LRU cache.                                              *)
(***************************************************************************)
\* Properties::gradientCacheSize
GradientCacheSizes == { 8192, 12288 }

\* what the constructor reads from Extensions and GL_MAX_TEXTURE_SIZE; an
\* upload stores 4 bytes per texel for GL_RGBA, and 8 or 16 for GL_RGBA16F
\* filled from floats
Extensions ==
  { [mUseFloatTexture |-> f, mHasNpot |-> n, mMaxTextureSize |-> m,
     texelBytes |-> b] :
      f \in BOOLEAN, n \in BOOLEAN, m \in {512, 2048}, b \in {4, 8, 16} }

\* GradientCacheEntry: count stops, and the colours and positions, which
\* compare() tells apart
Gradients == [count : 2..MaxCount, colors : {"opaque", "translucent"}]

RECURSIVE BitLength(_)
BitLength(w) == IF w = 0 THEN 0 ELSE 1 + BitLength(w \div 2)

\* (width & (width - 1)) != 0
NotPowerOfTwo(width) == width # 2 ^ (BitLength(width) - 1)

\* getGradientInfo: info.width
getGradientInfo(count) ==
  LET width == 256 * (count - 1)
      widened == IF ~g_ext.mHasNpot /\ NotPowerOfTwo(width)
                 THEN 2 ^ BitLength(width)
                 ELSE width
  IN IF widened < g_ext.mMaxTextureSize THEN widened
     ELSE g_ext.mMaxTextureSize

bytesPerPixel == 4 * (IF g_ext.mUseFloatTexture THEN 4 ELSE 1)

\* Texture::objectSize of a texture filled by upload(): width * height
\* texels
objectSize(texture) == texture.bytes

\* the condition of the while loop of addLinearGradient
cacheIsFull_withoutNew(current, size, maxSize) == current > maxSize

cacheIsFull(current, size, maxSize) == current + size > maxSize

\* LruCache::get: the position of the key, 0 when absent
LruFind(cache, gradient) ==
  IF \E i \in 1..Len(cache) : cache[i].gradient = gradient
  THEN CHOOSE i \in 1..Len(cache) : cache[i].gradient = gradient
  ELSE 0

\* LruCache::get of a key that is present makes its entry the youngest
LruTouch(cache, pos) ==
  SubSeq(cache, 1, pos - 1) \o SubSeq(cache, pos + 1, Len(cache))
    \o <<cache[pos]>>

RECURSIVE objectSizes(_)
objectSizes(cache) ==
  IF cache = <<>> THEN 0
  ELSE objectSize(Head(cache)) + objectSizes(Tail(cache))

GInit ==
  /\ PIdle
  /\ MIdle
  /\ g_pc = "idle"
  /\ g_ext \in { e \in Extensions :
                   e.texelBytes \in (IF e.mUseFloatTexture THEN {8, 16}
                                     ELSE {4}) }
  /\ mMaxSize \in GradientCacheSizes
  /\ mSize = 0
  /\ mCache = <<>>
  /\ g_gradient = NoGradient
  /\ g_size = 0
  /\ g_evicted = 0
  /\ g_texture = NoTexture
  /\ g_allFit = TRUE

\* get(): mCache.get(gradient); a hit returns the texture, a miss enters
\* addLinearGradient and computes the size of the new texture
GradientCache_get ==
  /\ g_pc = "idle"
  /\ \E gradient \in Gradients :
       LET pos == LruFind(mCache, gradient) IN
         /\ g_gradient' = gradient
         /\ g_evicted' = 0
         /\ IF pos # 0
            THEN /\ mCache' = LruTouch(mCache, pos)
                 /\ g_texture' = [gradient |-> gradient,
                                  bytes |-> mCache[pos].bytes, hit |-> TRUE]
                 /\ g_size' = 0
                 /\ UNCHANGED <<g_pc, g_allFit>>
            ELSE /\ g_size' = getGradientInfo(gradient.count) * 2 * bytesPerPixel
                 /\ g_allFit' = (g_allFit /\ g_size' <= mMaxSize)
                 /\ g_pc' = "evict"
                 /\ UNCHANGED <<mCache, g_texture>>
  /\ UNCHANGED <<g_ext, mMaxSize, mSize>>
  /\ UNCHANGED <<pvars, mvars>>

\* one turn of the while loop: mCache.removeOldest(), which calls
\* operator() for the entry removed; LOG_ALWAYS_FATAL when there is none
AddLinearGradient_removeOldest ==
  /\ g_pc = "evict"
  /\ cacheIsFull(mSize, g_size, mMaxSize)
  /\ IF mCache = <<>>
     THEN /\ g_pc' = "fatal"
          /\ UNCHANGED <<mSize, mCache, g_evicted>>
     ELSE /\ mSize' = mSize - objectSize(Head(mCache))
          /\ mCache' = Tail(mCache)
          /\ g_evicted' = g_evicted + 1
          /\ UNCHANGED g_pc
  /\ UNCHANGED <<g_ext, mMaxSize, g_gradient, g_size, g_texture, g_allFit>>
  /\ UNCHANGED <<pvars, mvars>>

\* after the loop: generateTexture, mSize += size, mCache.put, return
AddLinearGradient_put ==
  /\ g_pc = "evict"
  /\ ~cacheIsFull(mSize, g_size, mMaxSize)
  /\ mSize' = mSize + g_size
  /\ LET texture ==
           [gradient |-> g_gradient,
            bytes |-> getGradientInfo(g_gradient.count) * 2 * g_ext.texelBytes]
     IN /\ mCache' = Append(mCache, texture)
        /\ g_texture' = [gradient |-> g_gradient, bytes |-> texture.bytes,
                         hit |-> FALSE]
  /\ g_pc' = "idle"
  /\ UNCHANGED <<g_ext, mMaxSize, g_gradient, g_size, g_evicted, g_allFit>>
  /\ UNCHANGED <<pvars, mvars>>

\* clear(): mCache.clear() calls operator() for every entry
GradientCache_clear ==
  /\ g_pc = "idle"
  /\ mSize' = mSize - objectSizes(mCache)
  /\ mCache' = <<>>
  /\ UNCHANGED <<g_pc, g_ext, mMaxSize, g_gradient, g_size, g_evicted,
                 g_texture, g_allFit>>
  /\ UNCHANGED <<pvars, mvars>>

GNext ==
  \/ GradientCache_get
  \/ AddLinearGradient_removeOldest
  \/ AddLinearGradient_put
  \/ GradientCache_clear

SpecCache == GInit /\ [][GNext]_vars

\* a call of get() or clear() has returned
CallReturned == g_pc = "idle"

\* C19: while every texture asked for is at most the maximum cache size,
\* getSize() is at most getMaxSize() whenever a call has returned; a miss
\* evicts the oldest entries until the new texture fits and only then
\* inserts it, each eviction lowers the size by the size of the evicted
\* texture, and a hit returns the cached texture and leaves the size alone.
C19_SizeWithinMaxSize ==
  /\ []((CallReturned /\ g_allFit) => mSize <= mMaxSize)
  /\ [][(g_pc = "evict" /\ mCache' # mCache /\ g_pc' = "evict") =>
          /\ mSize + g_size > mMaxSize
          /\ mCache' = Tail(mCache)
          /\ mSize' = mSize - objectSize(Head(mCache))]_vars
  /\ [][(g_pc = "evict" /\ g_pc' = "idle") =>
          /\ mSize + g_size <= mMaxSize
          /\ mSize' = mSize + g_size
          /\ mCache' = Append(mCache, mCache'[Len(mCache')])
          /\ mCache'[Len(mCache')].gradient = g_gradient
          /\ g_texture'.gradient = g_gradient]_vars
  /\ [][(g_pc = "idle" /\ g_pc' = "idle" /\ mCache' # <<>>) =>
          /\ mSize' = mSize
          /\ LruFind(mCache, g_gradient') # 0
          /\ g_texture'.hit
          /\ g_texture'.gradient = g_gradient'
          /\ g_texture'.bytes
               = mCache[LruFind(mCache, g_gradient')].bytes
          /\ { mCache'[i] : i \in 1..Len(mCache') }
               = { mCache[i] : i \in 1..Len(mCache) }]_vars

\* a miss has returned after evicting an older entry, the cache holds the
\* new texture, and every texture asked for so far would have fitted
C19_Witness ==
  /\ CallReturned
  /\ g_allFit
  /\ ~g_texture.hit
  /\ g_evicted >= 1
  /\ mCache # <<>>
  /\ mCache[Len(mCache)].gradient = g_texture.gradient
  /\ mSize <= mMaxSize

====
